---- MODULE Spec2Model ----
(***************************************************************************)
(* Model of src/main.py: the Cargo manifest dependency analyser.           *)
(* Strings are sequences of one-character strings, so that substring tests,*)
(* stripping, splitting and the regular expressions of the parsers are     *)
(* computed character by character, as the Python code computes them.      *)
(***************************************************************************)
EXTENDS Integers, Sequences, FiniteSets, Bags, TLC

VARIABLES
    mode,            \* args.mode: "clone", "local" or "test"
    repo,            \* what args.repo names: whether the path exists, what kind of
                     \* path it is, its fixture lines or the manifests of its tree,
                     \* and which manifest, if any, cannot be read
    package,         \* args.package, the start node
    max_depth,       \* args.max_depth
    filter,          \* args.filter after '-' normalisation
    pc,              \* position of main()
    graph,           \* main's graph
    visited,         \* bfs_recursive_levels: visited
    levels,          \* bfs_recursive_levels: levels
    depth,           \* depth argument of the current recurse() call
    expanded,        \* nodes whose neighbours recurse() has read (line 171)
    edges,           \* result of collect_edges_within_levels
    stdout,          \* lines printed on standard output
    stderr,          \* messages printed on standard error
    exit_code,       \* process exit status (-1 while running)
    error,           \* the exception being propagated, <<>> if none
    git,             \* what the git tool does in clone mode
    workdir,         \* the temporary directory of clone mode
    lines,           \* parse_toml_dependencies: its argument
    idx,             \* parse_toml_dependencies: loop index i (1-based)
    deps,            \* parse_toml_dependencies: deps
    in_dependencies, \* parse_toml_dependencies: in_dependencies
    last,            \* the branch the last loop iteration of the parser took
    ppc,             \* position of parse_toml_dependencies
    result,          \* parse_toml_dependencies: returned list
    tomls,           \* build_graph_from_repo: manifests found by find_cargo_tomls
    all_nodes,       \* build_graph_from_repo: returned graph
    bpc,             \* position of build_graph_from_repo
    plines,          \* parse_toml_package_name: its argument
    pkg_name,        \* parse_toml_package_name: returned value, <<>> for None
    npc,             \* position of parse_toml_package_name
    ffile,           \* parse_test_graph_file: the lines of the file at path
    loaded,          \* parse_test_graph_file: the graph returned or the error raised
    fpc              \* position of parse_test_graph_file

mainVars  == <<mode, repo, package, max_depth, filter, pc, graph, visited,
               levels, depth, expanded, edges, stdout, stderr, exit_code,
               error, git, workdir>>
parseVars == <<lines, idx, deps, in_dependencies, last, ppc, result>>
buildVars == <<tomls, all_nodes, bpc>>
nameVars  == <<plines, pkg_name, npc>>
fixtureVars == <<ffile, loaded, fpc>>
vars      == <<mainVars, parseVars, buildVars, nameVars, fixtureVars>>

----------------------------------------------------------------------------
(* Bounds of the model *)

MaxDepth == 2      \* max_depth ranges over 0..MaxDepth
MaxEdges == 2      \* dependency occurrences in a generated test fixture
MaxTomls == 2      \* manifests in a source tree
MaxRaws == 3       \* a fixture file has at most MaxRaws lines
MaxLines == 3      \* lines of a manifest given to the dependency parser

----------------------------------------------------------------------------
(* Characters and Python string primitives *)

UpperCase == <<"A","B","C","D","E","F","G","H","I","J","K","L","M",
               "N","O","P","Q","R","S","T","U","V","W","X","Y","Z">>
LowerCase == <<"a","b","c","d","e","f","g","h","i","j","k","l","m",
               "n","o","p","q","r","s","t","u","v","w","x","y","z">>
Digits    == <<"0","1","2","3","4","5","6","7","8","9">>

\* the characters of the model in code-point order (str comparison)
CodePoints == <<"\t", " ", "\"", "#", "'", ",", "-", ".">> \o Digits
              \o <<":", "=", ">">> \o UpperCase \o <<"[", "]", "_">>
              \o LowerCase \o <<"{", "}">>

Ord(c) == CHOOSE k \in 1..Len(CodePoints) : CodePoints[k] = c

Range(s) == {s[k] : k \in 1..Len(s)}

IsSpace(c) == c \in {" ", "\t"}

LowerChar(c) ==
    IF c \in Range(UpperCase)
    THEN LowerCase[CHOOSE k \in 1..26 : UpperCase[k] = c]
    ELSE c

lower(s) == [k \in 1..Len(s) |-> LowerChar(s[k])]

\* s[from:] with a 1-based first index
Drop(s, from) == SubSeq(s, from, Len(s))

RECURSIVE lstripChars(_, _)
lstripChars(s, cs) ==
    IF s # <<>> /\ Head(s) \in cs THEN lstripChars(Tail(s), cs) ELSE s

RECURSIVE rstripChars(_, _)
rstripChars(s, cs) ==
    IF s # <<>> /\ s[Len(s)] \in cs
    THEN rstripChars(SubSeq(s, 1, Len(s) - 1), cs) ELSE s

stripChars(s, cs) == rstripChars(lstripChars(s, cs), cs)

strip(s) == stripChars(s, {" ", "\t"})

startswith(s, p) == Len(s) >= Len(p) /\ SubSeq(s, 1, Len(p)) = p

\* Python's "sub in s"
Contains(sub, s) ==
    \E k \in 0..(Len(s) - Len(sub)) : SubSeq(s, k + 1, k + Len(sub)) = sub

\* index of the first c in s, 0 if there is none
RECURSIVE FindFrom(_, _, _)
FindFrom(s, c, k) ==
    IF k > Len(s) THEN 0
    ELSE IF s[k] = c THEN k ELSE FindFrom(s, c, k + 1)

Find(s, c) == FindFrom(s, c, 1)

\* s.split(c, 1)[0]
SplitHead(s, c) == IF Find(s, c) = 0 THEN s ELSE SubSeq(s, 1, Find(s, c) - 1)

\* s.split(c, 1)[1], when c occurs in s
SplitTail(s, c) == Drop(s, Find(s, c) + 1)

\* s.split(): the whitespace-separated tokens, in order
RECURSIVE SplitWs(_, _, _)
SplitWs(s, cur, acc) ==
    IF s = <<>> THEN (IF cur = <<>> THEN acc ELSE Append(acc, cur))
    ELSE IF IsSpace(Head(s))
         THEN SplitWs(Tail(s), <<>>, IF cur = <<>> THEN acc ELSE Append(acc, cur))
         ELSE SplitWs(Tail(s), Append(cur, Head(s)), acc)

split(s) == SplitWs(s, <<>>, <<>>)

\* sep.join(parts)
RECURSIVE join(_, _)
join(sep, parts) ==
    IF parts = <<>> THEN <<>>
    ELSE IF Len(parts) = 1 THEN parts[1]
    ELSE parts[1] \o sep \o join(sep, Tail(parts))

\* str < str: lexicographic by code point
RECURSIVE StrLess(_, _)
StrLess(s, t) ==
    IF t = <<>> THEN FALSE
    ELSE IF s = <<>> THEN TRUE
    ELSE IF Head(s) = Head(t) THEN StrLess(Tail(s), Tail(t))
    ELSE Ord(Head(s)) < Ord(Head(t))

\* tuple < tuple for pairs of strings
PairLess(p, q) ==
    IF p[1] = q[1] THEN StrLess(p[2], q[2]) ELSE StrLess(p[1], q[1])

\* str(n) for the small non-negative integers of the model
RECURSIVE str(_)
str(n) == IF n < 10 THEN <<Digits[n + 1]>>
          ELSE str(n \div 10) \o <<Digits[(n % 10) + 1]>>

\* sorted() of a set of strings
RECURSIVE SortedStrs(_)
SortedStrs(S) ==
    IF S = {} THEN <<>>
    ELSE LET m == CHOOSE x \in S : \A y \in S : x = y \/ StrLess(x, y)
         IN  <<m>> \o SortedStrs(S \ {m})

\* sorted() of a list of pairs of strings (insertion into a sorted list)
RECURSIVE InsertPair(_, _)
InsertPair(p, s) ==
    IF s = <<>> THEN <<p>>
    ELSE IF PairLess(p, Head(s)) THEN <<p>> \o s
    ELSE <<Head(s)>> \o InsertPair(p, Tail(s))

RECURSIVE SortedPairs(_)
SortedPairs(s) ==
    IF s = <<>> THEN <<>>
    ELSE InsertPair(s[Len(s)], SortedPairs(SubSeq(s, 1, Len(s) - 1)))

\* dict.get(node, [])
Get(g, node) == IF node \in DOMAIN g THEN g[node] ELSE <<>>

EmptyGraph == [n \in {} |-> <<>>]

----------------------------------------------------------------------------
(* Regular expressions of the manifest parsers, matched from the left *)

SpaceChars == {" ", "\t"}
IdentChars == Range(UpperCase) \cup Range(LowerCase) \cup Range(Digits) \cup {"_", "-"}
QuoteChars == {"\"", "'"}

\* first index >= k of s whose character is not in cs (Len(s) + 1 if none):
\* where a greedy  [cs]*  starting at k stops
RECURSIVE RunEnd(_, _, _)
RunEnd(s, k, cs) ==
    IF k <= Len(s) /\ s[k] \in cs THEN RunEnd(s, k + 1, cs) ELSE k

\* the same for a negated class  [^cs]*
RECURSIVE RunEndNot(_, _, _)
RunEndNot(s, k, cs) ==
    IF k <= Len(s) /\ s[k] \notin cs THEN RunEndNot(s, k + 1, cs) ELSE k

\* s has the literal lit at index k
HasAt(s, k, lit) ==
    k + Len(lit) - 1 <= Len(s) /\ SubSeq(s, k, k + Len(lit) - 1) = lit

CharAt(s, k, c) == k <= Len(s) /\ s[k] = c

NoMatch == <<>>

kwDependencies == <<"d","e","p","e","n","d","e","n","c","i","e","s">>
kwPackage      == <<"p","a","c","k","a","g","e">>
kwName         == <<"n","a","m","e">>

\* name_re = ^\s*name\s*=\s*["']([^"']+)["']      returns <<group 1>> or NoMatch
name_re(line) ==
    LET p1 == RunEnd(line, 1, SpaceChars)
        p2 == RunEnd(line, p1 + Len(kwName), SpaceChars)
        p3 == RunEnd(line, p2 + 1, SpaceChars)
        p4 == RunEndNot(line, p3 + 1, QuoteChars)
    IN  IF /\ HasAt(line, p1, kwName)
           /\ CharAt(line, p2, "=")
           /\ p3 <= Len(line) /\ line[p3] \in QuoteChars
           /\ p4 > p3 + 1
           /\ p4 <= Len(line)
        THEN <<SubSeq(line, p3 + 1, p4 - 1)>>
        ELSE NoMatch

\* a header pattern that accepts every bracket header ending in dependencies]
dep_section_re_Suffix(line) ==
    LET s   == strip(lower(line))
        end == kwDependencies \o <<"]">>
    IN  /\ startswith(s, <<"[">>)
        /\ Len(s) > Len(end)
        /\ SubSeq(s, Len(s) - Len(end) + 1, Len(s)) = end

\* dep_section_re = ^\s*\[dependencies\]\s*$  (IGNORECASE)
dep_section_re(line) ==
    LET p1  == RunEnd(line, 1, SpaceChars)
        hdr == <<"[">> \o kwDependencies \o <<"]">>
    IN  /\ HasAt(lower(line), p1, hdr)
        /\ RunEnd(line, p1 + Len(hdr), SpaceChars) = Len(line) + 1

\* dep_table_re = ^\s*\[dependencies\.([^\]]+)\]\s*$  (IGNORECASE)
\* returns <<group 1>> or NoMatch
dep_table_re(line) ==
    LET p1  == RunEnd(line, 1, SpaceChars)
        hdr == <<"[">> \o kwDependencies \o <<".">>
        p2  == p1 + Len(hdr)
        p3  == RunEndNot(line, p2, {"]"})
    IN  IF /\ HasAt(lower(line), p1, hdr)
           /\ p3 > p2
           /\ CharAt(line, p3, "]")
           /\ RunEnd(line, p3 + 1, SpaceChars) = Len(line) + 1
        THEN <<SubSeq(line, p2, p3 - 1)>>
        ELSE NoMatch

\* key_val_re = ^\s*([A-Za-z0-9_\-]+)\s*=       returns <<group 1>> or NoMatch
key_val_re(s) ==
    LET p1 == RunEnd(s, 1, SpaceChars)
        p2 == RunEnd(s, p1, IdentChars)
        p3 == RunEnd(s, p2, SpaceChars)
    IN  IF p2 > p1 /\ CharAt(s, p3, "=")
        THEN <<SubSeq(s, p1, p2 - 1)>>
        ELSE NoMatch

\* inline_deps_re = ^\s*dependencies\s*=\s*{
inline_deps_re(line) ==
    LET p1 == RunEnd(line, 1, SpaceChars)
        p2 == RunEnd(line, p1 + Len(kwDependencies), SpaceChars)
        p3 == RunEnd(line, p2 + 1, SpaceChars)
    IN  /\ HasAt(line, p1, kwDependencies)
        /\ CharAt(line, p2, "=")
        /\ CharAt(line, p3, "{")

\* group 1 of every match of  ([A-Za-z0-9_\-]+)\s*=  found by re.finditer,
\* scanning s from index k
RECURSIVE finditer(_, _)
finditer(s, k) ==
    IF k > Len(s) THEN {}
    ELSE LET e == RunEnd(s, k, IdentChars)
             f == RunEnd(s, e, SpaceChars)
         IN  IF e > k /\ CharAt(s, f, "=")
             THEN {SubSeq(s, k, e - 1)} \cup finditer(s, f + 1)
             ELSE finditer(s, k + 1)

----------------------------------------------------------------------------
(* parse_toml_package_name *)

\* the loop of lines 65-75 from line k on; <<name>> or NoMatch (None)
RECURSIVE PackageNameFrom(_, _, _)
PackageNameFrom(ls, k, in_package) ==
    IF k > Len(ls) THEN NoMatch
    ELSE LET s == strip(ls[k])
         IN  IF startswith(s, <<"[">>) /\ startswith(lower(s), <<"[">> \o kwPackage)
             THEN PackageNameFrom(ls, k + 1, TRUE)
             ELSE IF ~in_package THEN PackageNameFrom(ls, k + 1, FALSE)
             ELSE IF startswith(s, <<"[">>) THEN NoMatch
             ELSE IF name_re(ls[k]) # NoMatch THEN name_re(ls[k])
             ELSE PackageNameFrom(ls, k + 1, TRUE)

parse_toml_package_name(ls) == PackageNameFrom(ls, 1, FALSE)

----------------------------------------------------------------------------
(* parse_toml_dependencies *)

\* lines 108-112: the text accumulated for an inline table that starts on line k
RECURSIVE Accumulate(_, _, _)
Accumulate(inline, ls, j) ==
    IF ~Contains(<<"}">>, inline) /\ j <= Len(ls)
    THEN Accumulate(inline \o <<" ">> \o ls[j], ls, j + 1)
    ELSE inline

\* line 91: m_table.group(1).strip().strip('"').strip("'")
TableName(g) == stripChars(stripChars(strip(g), {"\""}), {"'"})

\* a dotted header that leaves a block-form section open behind it
TableStep_Opens(ds, ind, g) ==
    [deps |-> IF TableName(g) # <<>> THEN ds \cup {TableName(g)} ELSE ds,
     in_dependencies |-> TRUE, branch |-> "table"]

\* lines 91-95: a header [dependencies.<g>] was matched
TableStep(ds, ind, g) ==
    [deps |-> IF TableName(g) # <<>> THEN ds \cup {TableName(g)} ELSE ds,
     in_dependencies |-> FALSE, branch |-> "table"]

\* one iteration of the loop of lines 85-114 on line k: the new deps and
\* in_dependencies, and the branch that was taken
DepStep(ds, ind, ls, k) ==
    LET line == ls[k]
        s    == strip(SplitHead(line, "#"))
        fall == IF inline_deps_re(line)
                THEN [deps |-> ds \cup finditer(Accumulate(line, ls, k + 1), 1),
                      in_dependencies |-> ind, branch |-> "inline"]
                ELSE [deps |-> ds, in_dependencies |-> ind, branch |-> "none"]
    IN  IF dep_section_re(line)
        THEN [deps |-> ds, in_dependencies |-> TRUE, branch |-> "section"]
        ELSE IF dep_table_re(line) # NoMatch
        THEN TableStep(ds, ind, dep_table_re(line)[1])
        ELSE IF ~ind THEN fall
        ELSE IF startswith(strip(line), <<"[">>) /\ ~dep_section_re(line)
        THEN [deps |-> ds, in_dependencies |-> FALSE, branch |-> "header"]
        ELSE IF s = <<>>
        THEN [deps |-> ds, in_dependencies |-> ind, branch |-> "blank"]
        ELSE IF key_val_re(s) # NoMatch
        THEN [deps |-> ds \cup {strip(key_val_re(s)[1])},
              in_dependencies |-> ind, branch |-> "key"]
        ELSE fall

\* the whole loop from line k on: the final deps set
RECURSIVE DepsFrom(_, _, _, _)
DepsFrom(ds, ind, ls, k) ==
    IF k > Len(ls) THEN ds
    ELSE LET st == DepStep(ds, ind, ls, k)
         IN  DepsFrom(st.deps, st.in_dependencies, ls, k + 1)

\* the names in descending order
RECURSIVE sorted_deps_Reverse(_)
sorted_deps_Reverse(ds) ==
    IF ds = {} THEN <<>>
    ELSE LET m == CHOOSE x \in ds : \A y \in ds : x = y \/ StrLess(y, x)
         IN  <<m>> \o sorted_deps_Reverse(ds \ {m})

\* line 115: return sorted(deps)
sorted_deps(ds) == SortedStrs(ds)

parse_toml_dependencies(ls) == sorted_deps(DepsFrom({}, FALSE, ls, 1))

----------------------------------------------------------------------------
(* parse_test_graph_file *)

\* a second declaration of a node extends its list instead of replacing it
SetKey_Merge(g, k, v) ==
    [n \in DOMAIN g \cup {k} |-> IF n = k THEN Get(g, k) \o v ELSE g[n]]

SetKey(g, k, v) == [n \in DOMAIN g \cup {k} |-> IF n = k THEN v ELSE g[n]]

\* the separator is looked for in the raw line, comment included
RECURSIVE FixtureFrom_RawColon(_, _, _)
FixtureFrom_RawColon(g, raws, k) ==
    IF k > Len(raws) THEN [ok |-> TRUE, graph |-> g, raw |-> <<>>]
    ELSE LET raw  == raws[k]
             line == strip(SplitHead(raw, "#"))
             node == strip(SplitHead(line, ":"))
             ds   == split(strip(SplitTail(line, ":")))
         IN  IF line = <<>> THEN FixtureFrom_RawColon(g, raws, k + 1)
             ELSE IF ~Contains(<<":">>, raw)
             THEN [ok |-> FALSE, graph |-> EmptyGraph, raw |-> raw]
             ELSE IF node = <<>> THEN FixtureFrom_RawColon(g, raws, k + 1)
             ELSE FixtureFrom_RawColon(SetKey(g, node, ds), raws, k + 1)

\* the loop of lines 122-133 from raw line k on
RECURSIVE FixtureFrom(_, _, _)
FixtureFrom(g, raws, k) ==
    IF k > Len(raws) THEN [ok |-> TRUE, graph |-> g, raw |-> <<>>]
    ELSE LET raw  == raws[k]
             line == strip(SplitHead(raw, "#"))
             node == strip(SplitHead(line, ":"))
             ds   == split(strip(SplitTail(line, ":")))
         IN  IF line = <<>> THEN FixtureFrom(g, raws, k + 1)
             ELSE IF ~Contains(<<":">>, line)
             THEN [ok |-> FALSE, graph |-> EmptyGraph, raw |-> raw]
             ELSE IF node = <<>> THEN FixtureFrom(g, raws, k + 1)
             ELSE FixtureFrom(SetKey(g, node, ds), raws, k + 1)

parse_test_graph_file(raws) == FixtureFrom(EmptyGraph, raws, 1)

----------------------------------------------------------------------------
(* build_graph_from_repo *)

\* lines 139-147: packages after the manifests from k on
RECURSIVE PackagesFrom(_, _, _)
PackagesFrom(packages, ts, k) ==
    IF k > Len(ts) THEN packages
    ELSE LET name == parse_toml_package_name(ts[k])
             ds   == parse_toml_dependencies(ts[k])
         IN  IF name # NoMatch
             THEN PackagesFrom(SetKey(packages, name[1], ds), ts, k + 1)
             ELSE PackagesFrom(packages, ts, k + 1)

\* the graph without the leaves of lines 149-152
AddLeaves_None(packages) == packages

\* lines 148-152: every dependency that is not a key becomes a key
AddLeaves(packages) ==
    [n \in DOMAIN packages \cup UNION {Range(packages[p]) : p \in DOMAIN packages}
        |-> IF n \in DOMAIN packages THEN packages[n] ELSE <<>>]

build_graph_from_repo(ts) == AddLeaves(PackagesFrom(EmptyGraph, ts, 1))

----------------------------------------------------------------------------
(* bfs_recursive_levels *)

\* the filter compared for equality instead of containment
Filtered_Equal(f, name) == f # <<>> /\ f = name

\* lines 160 and 172: "filter_substr and filter_substr in name"
Filtered(f, name) == f # <<>> /\ Contains(f, name)

\* the neighbour loop without the filter test of line 172
RECURSIVE ScanNbrs_NoFilter(_, _, _, _)
ScanNbrs_NoFilter(nbrs, vis, next, f) ==
    IF nbrs = <<>> THEN [visited |-> vis, next_frontier |-> next]
    ELSE LET nbr == Head(nbrs)
         IN  IF nbr \notin vis
             THEN ScanNbrs_NoFilter(Tail(nbrs), vis \cup {nbr}, Append(next, nbr), f)
             ELSE ScanNbrs_NoFilter(Tail(nbrs), vis, next, f)

\* the neighbour loop without the visited test of line 174
RECURSIVE ScanNbrs_Revisit(_, _, _, _)
ScanNbrs_Revisit(nbrs, vis, next, f) ==
    IF nbrs = <<>> THEN [visited |-> vis, next_frontier |-> next]
    ELSE LET nbr == Head(nbrs)
         IN  IF Filtered(f, nbr) THEN ScanNbrs_Revisit(Tail(nbrs), vis, next, f)
             ELSE ScanNbrs_Revisit(Tail(nbrs), vis \cup {nbr}, Append(next, nbr), f)

\* the neighbour loop without visited.add of line 175
RECURSIVE ScanNbrs_NoMark(_, _, _, _)
ScanNbrs_NoMark(nbrs, vis, next, f) ==
    IF nbrs = <<>> THEN [visited |-> vis, next_frontier |-> next]
    ELSE LET nbr == Head(nbrs)
         IN  IF Filtered(f, nbr) THEN ScanNbrs_NoMark(Tail(nbrs), vis, next, f)
             ELSE IF nbr \notin vis
                  THEN ScanNbrs_NoMark(Tail(nbrs), vis, Append(next, nbr), f)
                  ELSE ScanNbrs_NoMark(Tail(nbrs), vis, next, f)

\* the neighbour loop that puts a new neighbour in front of the next frontier
RECURSIVE ScanNbrs_Prepend(_, _, _, _)
ScanNbrs_Prepend(nbrs, vis, next, f) ==
    IF nbrs = <<>> THEN [visited |-> vis, next_frontier |-> next]
    ELSE LET nbr == Head(nbrs)
         IN  IF Filtered(f, nbr) THEN ScanNbrs_Prepend(Tail(nbrs), vis, next, f)
             ELSE IF nbr \notin vis
                  THEN ScanNbrs_Prepend(Tail(nbrs), vis \cup {nbr}, <<nbr>> \o next, f)
                  ELSE ScanNbrs_Prepend(Tail(nbrs), vis, next, f)

\* lines 171-176 for one node: its neighbours nbrs, in declared order
RECURSIVE ScanNbrs(_, _, _, _)
ScanNbrs(nbrs, vis, next, f) ==
    IF nbrs = <<>> THEN [visited |-> vis, next_frontier |-> next]
    ELSE LET nbr == Head(nbrs)
         IN  IF Filtered(f, nbr) THEN ScanNbrs(Tail(nbrs), vis, next, f)
             ELSE IF nbr \notin vis
                  THEN ScanNbrs(Tail(nbrs), vis \cup {nbr}, Append(next, nbr), f)
                  ELSE ScanNbrs(Tail(nbrs), vis, next, f)

\* the loop over the frontier that follows only dependencies that are keys
\* of the graph
RECURSIVE ScanFrontier_DeclaredOnly(_, _, _, _, _)
ScanFrontier_DeclaredOnly(frontier, g, vis, next, f) ==
    IF frontier = <<>> THEN [visited |-> vis, next_frontier |-> next]
    ELSE LET declared == SelectSeq(Get(g, Head(frontier)), LAMBDA n : n \in DOMAIN g)
             r == ScanNbrs(declared, vis, next, f)
         IN  ScanFrontier_DeclaredOnly(Tail(frontier), g, r.visited, r.next_frontier, f)

\* lines 169-176: the loop over the frontier
RECURSIVE ScanFrontier(_, _, _, _, _)
ScanFrontier(frontier, g, vis, next, f) ==
    IF frontier = <<>> THEN [visited |-> vis, next_frontier |-> next]
    ELSE LET r == ScanNbrs(Get(g, Head(frontier)), vis, next, f)
         IN  ScanFrontier(Tail(frontier), g, r.visited, r.next_frontier, f)

\* the guard of line 167 off by one
DepthReached_Late(d, md) == d > md

\* line 167: the guard that ends the recursion
DepthReached(d, md) == d >= md

----------------------------------------------------------------------------
(* collect_edges_within_levels *)

\* lines 186-188
NodesSet(lvls) == UNION {Range(lvls[k]) : k \in 1..Len(lvls)}

\* the edges of one node with a repeated dependency reported once
RECURSIVE EdgesOf_Once(_, _, _)
EdgesOf_Once(node, nbrs, nodes_set) ==
    IF nbrs = <<>> THEN <<>>
    ELSE (IF Head(nbrs) \in nodes_set /\ Head(nbrs) \notin Range(Tail(nbrs))
          THEN <<<<node, Head(nbrs)>>>> ELSE <<>>)
         \o EdgesOf_Once(node, Tail(nbrs), nodes_set)

\* lines 190-192 for one node
RECURSIVE EdgesOf(_, _, _)
EdgesOf(node, nbrs, nodes_set) ==
    IF nbrs = <<>> THEN <<>>
    ELSE (IF Head(nbrs) \in nodes_set THEN <<<<node, Head(nbrs)>>>> ELSE <<>>)
         \o EdgesOf(node, Tail(nbrs), nodes_set)

\* lines 189-192 when the set nodes_set is iterated in the order given
RECURSIVE EdgesInOrder(_, _, _)
EdgesInOrder(order, g, nodes_set) ==
    IF order = <<>> THEN <<>>
    ELSE EdgesOf(Head(order), Get(g, Head(order)), nodes_set)
         \o EdgesInOrder(Tail(order), g, nodes_set)

\* the orders in which Python may iterate the set S
Orders(S) == {o \in [1..Cardinality(S) -> S] : Range(o) = S}

----------------------------------------------------------------------------
(* main: output *)

\* line 232
EdgeLine(e) == e[1] \o <<" ", "-", ">", " ">> \o e[2]

\* line 236, i counted from 0
LevelLine(k, lvl) ==
    <<"L", "e", "v", "e", "l", " ">> \o str(k) \o <<":", " ">> \o join(<<" ">>, lvl)

\* lines 231-236
Output(es, lvls) ==
    [k \in 1..Len(es) |-> EdgeLine(SortedPairs(es)[k])]
    \o [k \in 1..Len(lvls) |-> LevelLine(k - 1, lvls[k])]

----------------------------------------------------------------------------
(* Inputs *)

NameA  == <<"a">>
NameB  == <<"b">>
NameAB == <<"a", "b">>

Names   == {NameA, NameB, NameAB}
Filters == {<<>>, NameA, NameB, NameAB}
Modes   == {"clone", "local", "test"}

\* the graph with keys K and the dependency occurrences es, a list of
\* <<node, dependency>> pairs in file order
GraphOf(K, es) ==
    [n \in K \cup {es[k][1] : k \in 1..Len(es)}
        |-> LET own == SelectSeq(es, LAMBDA e : e[1] = n)
            IN  [k \in 1..Len(own) |-> own[k][2]]]

\* the graphs a fixture with at most MaxEdges dependency occurrences declares
FixtureGraphs ==
    {GraphOf(K, es) : K \in SUBSET Names,
                      es \in UNION {[1..n -> Names \X Names] : n \in 0..MaxEdges}}

\* the example of the specification (A: B C, B: C, C:) with a for A, b for B
\* and ab for C; a chain with an edge back to the start node; a dependency
\* listed twice together with an edge between two nodes of one level; a
\* dependency listed twice that depends on the start node
ExampleGraphs ==
    { GraphOf(Names, <<<<NameA, NameB>>, <<NameA, NameAB>>, <<NameB, NameAB>>>>),
      GraphOf({}, <<<<NameA, NameB>>, <<NameB, NameAB>>, <<NameB, NameA>>>>),
      GraphOf({}, <<<<NameA, NameB>>, <<NameA, NameB>>, <<NameA, NameAB>>,
                    <<NameB, NameAB>>>>),
      GraphOf({}, <<<<NameA, NameB>>, <<NameA, NameB>>, <<NameB, NameA>>>>) }

\* a fixture file that declares g: one line "node: dep dep ..." per key
FixtureLine(g, n) == n \o <<":">> \o (IF g[n] = <<>> THEN <<>> ELSE <<" ">> \o join(<<" ">>, g[n]))

FixtureFile(g) ==
    LET keys == SortedStrs(DOMAIN g)
    IN  [k \in 1..Len(keys) |-> FixtureLine(g, keys[k])]

FixtureFiles == {FixtureFile(g) : g \in FixtureGraphs \cup ExampleGraphs}

\* manifest lines
LinePackage   == <<"[">> \o kwPackage \o <<"]">>
LineName(n)   == kwName \o <<" ", "=", " ", "\"">> \o n \o <<"\"">>
LineSection   == <<"[">> \o kwDependencies \o <<"]">>
LineKey(d, v) == d \o <<" ", "=", " ", "\"", v, "\"">>
LineTable(n)  == <<"[">> \o kwDependencies \o <<".">> \o n \o <<"]">>
LineInline(body) == kwDependencies \o <<" ", "=", " ", "{">> \o body \o <<"}">>

\* a manifest of package n whose [dependencies] block lists ds in the order given
Manifest(n, ds) ==
    <<LinePackage, LineName(n), LineSection>> \o [k \in 1..Len(ds) |-> LineKey(ds[k], "1")]

\* a manifest without a [package] name (a workspace root)
Nameless(ds) == <<LineSection>> \o [k \in 1..Len(ds) |-> LineKey(ds[k], "1")]

TreePool ==
    { Manifest(NameA, <<NameAB>>),
      Manifest(NameA, <<NameB, NameA>>),
      Manifest(NameB, <<>>),
      Manifest(NameB, <<NameAB>>),
      Nameless(<<NameB>>) }

\* the manifests of a source tree, in os.walk order
Trees == UNION {[1..n -> TreePool] : n \in 0..MaxTomls}

\* what args.repo names
Path(exists, kind, content, unreadable) ==
    [exists |-> exists, kind |-> kind, content |-> content, unreadable |-> unreadable]

\* trees whose manifests can all be read, and trees whose last manifest cannot
TreePaths(kinds) ==
    {Path(TRUE, k, t, u) : k \in kinds, t \in Trees, u \in {0}}
    \cup {Path(TRUE, k, t, Len(t)) : k \in kinds, t \in Trees \ {<<>>}}

----------------------------------------------------------------------------
(* main *)

NoError == <<>>

\* RuntimeError raised with message msg about arg
RuntimeError(msg, arg) == <<[msg |-> msg, arg |-> arg]>>

ParseIdle ==
    /\ lines = <<>> /\ idx = 0 /\ deps = {} /\ in_dependencies = FALSE
    /\ last = "none" /\ ppc = "idle" /\ result = <<>>

BuildIdle == tomls = <<>> /\ all_nodes = EmptyGraph /\ bpc = "idle"

NameIdle == plines = <<>> /\ pkg_name = <<>> /\ npc = "idle"

FixtureIdle ==
    /\ ffile = <<>> /\ fpc = "idle"
    /\ loaded = [ok |-> TRUE, graph |-> EmptyGraph, raw |-> <<>>]

MainIdle ==
    /\ mode = "test" /\ repo = Path(FALSE, "file", <<>>, 0)
    /\ package = <<>> /\ max_depth = 0 /\ filter = <<>> /\ pc = "idle"
    /\ graph = EmptyGraph /\ visited = {} /\ levels = <<>> /\ depth = 0
    /\ expanded = {} /\ edges = <<>> /\ stdout = <<>> /\ stderr = <<>>
    /\ exit_code = -1 /\ error = NoError /\ git = "ok" /\ workdir = "none"

\* what --repo can name in mode m, and what the git tool then does
SourcesOf(m) ==
    IF m = "test"
    THEN ({Path(TRUE, "file", f, 0) : f \in FixtureFiles}
              \cup {Path(FALSE, "file", <<>>, 0)}) \X {"ok"}
    ELSE IF m = "local"
    THEN (TreePaths({"dir", "cargo_file"})
              \cup {Path(TRUE, "other_file", <<>>, 0), Path(FALSE, "dir", <<>>, 0)})
         \X {"ok"}
    ELSE (TreePaths({"url"}) \X {"ok"})
         \cup ({Path(TRUE, "url", <<>>, 0)} \X {"missing", "clone_failed"})

\* the state when main() is entered, after parse_arguments (line 198)
Init ==
    /\ mode \in Modes
    /\ \E s \in SourcesOf(mode) : repo = s[1] /\ git = s[2]
    /\ package \in Names
    /\ max_depth \in 0..MaxDepth
    /\ filter \in Filters
    /\ pc = "load"
    /\ graph = EmptyGraph /\ visited = {} /\ levels = <<>> /\ depth = 0
    /\ expanded = {} /\ edges = <<>> /\ stdout = <<>> /\ stderr = <<>>
    /\ exit_code = -1 /\ error = NoError /\ workdir = "none"
    /\ ParseIdle /\ BuildIdle /\ NameIdle /\ FixtureIdle

\* lines 48-53 on the path of lines 211-214: a file named Cargo.toml stands
\* for its directory, os.walk of any other file yields nothing
find_cargo_tomls(r) == IF r.kind = "other_file" THEN <<>> ELSE r.content

\* lines 138-147 with read_file_lines (lines 55-60): the graph of the
\* manifests ts, or the RuntimeError of the manifest that cannot be read
BuildOrFail(ts, unreadable) ==
    IF unreadable \in 1..Len(ts)
    THEN [error |-> RuntimeError("Failed to read file", unreadable), graph |-> EmptyGraph]
    ELSE [error |-> NoError, graph |-> build_graph_from_repo(ts)]

\* lines 204-217: the graph of the chosen source, or the exception raised
Source ==
    IF mode = "clone"
    THEN IF git = "missing"
         THEN [error |-> RuntimeError("git is not available on PATH.", <<>>),
               graph |-> EmptyGraph]
         ELSE IF git = "clone_failed"
         THEN [error |-> RuntimeError("git clone failed", <<>>), graph |-> EmptyGraph]
         ELSE BuildOrFail(repo.content, repo.unreadable)
    ELSE IF mode = "local"
    THEN IF ~repo.exists
         THEN [error |-> RuntimeError("Local path does not exist", <<>>),
               graph |-> EmptyGraph]
         ELSE BuildOrFail(find_cargo_tomls(repo), repo.unreadable)
    ELSE IF ~repo.exists
         THEN [error |-> RuntimeError("Test graph file not found", <<>>),
               graph |-> EmptyGraph]
         ELSE LET r == parse_test_graph_file(repo.content)
              IN  IF r.ok THEN [error |-> NoError, graph |-> r.graph]
                  ELSE [error |-> RuntimeError("Bad line in test file", r.raw),
                        graph |-> EmptyGraph]

\* the missing-start policy of the manifest modes applied to every mode
MissingStart_Insert(m) == "insert"

\* lines 219-225: what a start node that is not in the graph leads to
MissingStart(m) == IF m = "test" THEN "raise" ELSE "insert"

\* lines 203-225
LoadGraph ==
    /\ pc = "load"
    /\ workdir' = IF mode = "clone" THEN "created" ELSE workdir
    /\ LET src == Source
       IN  IF src.error # NoError
           THEN /\ error' = src.error /\ graph' = graph /\ pc' = "finally"
           ELSE IF package \in DOMAIN src.graph
           THEN /\ error' = error /\ graph' = src.graph /\ pc' = "bfs"
           ELSE IF MissingStart(mode) = "raise"
           THEN /\ error' = RuntimeError("Start node not found in test graph.", package)
                /\ graph' = src.graph /\ pc' = "finally"
           ELSE /\ error' = error
                /\ graph' = SetKey(src.graph, package, <<>>)
                /\ pc' = "bfs"
    /\ UNCHANGED <<mode, repo, package, max_depth, filter, visited, levels, depth,
                   expanded, edges, stdout, stderr, exit_code, git>>
    /\ UNCHANGED <<parseVars, buildVars, nameVars, fixtureVars>>

\* lines 157-164 and the call of line 181
BfsStart ==
    /\ pc = "bfs"
    /\ IF Filtered(filter, package)
       THEN /\ visited' = {} /\ levels' = <<>> /\ pc' = "collect"
       ELSE /\ visited' = {package} /\ levels' = <<<<package>>>> /\ pc' = "recurse"
    /\ depth' = 0
    /\ UNCHANGED <<mode, repo, package, max_depth, filter, graph, expanded, edges,
                   stdout, stderr, exit_code, error, git, workdir>>
    /\ UNCHANGED <<parseVars, buildVars, nameVars, fixtureVars>>

\* a call of recurse that appends the next frontier and recurses even when
\* the frontier is empty
Recurse_AppendsEmpty ==
    /\ pc = "recurse"
    /\ IF DepthReached(depth, max_depth)
       THEN /\ pc' = "collect"
            /\ UNCHANGED <<visited, levels, depth, expanded>>
       ELSE LET frontier == levels[Len(levels)]
                r == ScanFrontier(frontier, graph, visited, <<>>, filter)
            IN  /\ visited' = r.visited
                /\ expanded' = expanded \cup Range(frontier)
                /\ levels' = Append(levels, r.next_frontier)
                /\ depth' = depth + 1
                /\ pc' = "recurse"
    /\ UNCHANGED <<mode, repo, package, max_depth, filter, graph, edges,
                   stdout, stderr, exit_code, error, git, workdir>>
    /\ UNCHANGED <<parseVars, buildVars, nameVars, fixtureVars>>

\* lines 166-179: one call of recurse(frontier, depth), frontier the last level
Recurse ==
    /\ pc = "recurse"
    /\ IF DepthReached(depth, max_depth)
       THEN /\ pc' = "collect"
            /\ UNCHANGED <<visited, levels, depth, expanded>>
       ELSE LET frontier == levels[Len(levels)]
                r == ScanFrontier(frontier, graph, visited, <<>>, filter)
            IN  /\ visited' = r.visited
                /\ expanded' = expanded \cup Range(frontier)
                /\ IF r.next_frontier # <<>>
                   THEN /\ levels' = Append(levels, r.next_frontier)
                        /\ depth' = depth + 1
                        /\ pc' = "recurse"
                   ELSE /\ pc' = "collect"
                        /\ UNCHANGED <<levels, depth>>
    /\ UNCHANGED <<mode, repo, package, max_depth, filter, graph, edges,
                   stdout, stderr, exit_code, error, git, workdir>>
    /\ UNCHANGED <<parseVars, buildVars, nameVars, fixtureVars>>

\* lines 184-193, called at line 229; the set nodes_set is iterated in some order
CollectEdges ==
    /\ pc = "collect"
    /\ \E o \in Orders(NodesSet(levels)) :
           edges' = EdgesInOrder(o, graph, NodesSet(levels))
    /\ pc' = "print"
    /\ UNCHANGED <<mode, repo, package, max_depth, filter, graph, visited, levels,
                   depth, expanded, stdout, stderr, exit_code, error, git, workdir>>
    /\ UNCHANGED <<parseVars, buildVars, nameVars, fixtureVars>>

\* lines 231-236
PrintOutput ==
    /\ pc = "print"
    /\ stdout' = stdout \o Output(edges, levels)
    /\ pc' = "finally"
    /\ UNCHANGED <<mode, repo, package, max_depth, filter, graph, visited, levels,
                   depth, expanded, edges, stderr, exit_code, error, git, workdir>>
    /\ UNCHANGED <<parseVars, buildVars, nameVars, fixtureVars>>

\* the directory is removed at the end of the try block instead: a run
\* that raises leaves it behind
Finally_AfterOutput ==
    /\ pc = "finally"
    /\ IF mode = "clone" /\ workdir = "created" /\ error = NoError
       THEN workdir' \in {"removed", "remove_failed"}
       ELSE workdir' = workdir
    /\ IF error # NoError
       THEN stderr' = stderr \o error /\ exit_code' = 1
       ELSE stderr' = stderr /\ exit_code' = 0
    /\ pc' = "done"
    /\ UNCHANGED <<mode, repo, package, max_depth, filter, graph, visited, levels,
                   depth, expanded, edges, stdout, error, git>>
    /\ UNCHANGED <<parseVars, buildVars, nameVars, fixtureVars>>

\* lines 238-251: the finally block, then the handler of a propagated exception
Finally ==
    /\ pc = "finally"
    /\ IF mode = "clone" /\ workdir = "created"
       THEN workdir' \in {"removed", "remove_failed"}
       ELSE workdir' = workdir
    /\ IF error # NoError
       THEN stderr' = stderr \o error /\ exit_code' = 1
       ELSE stderr' = stderr /\ exit_code' = 0
    /\ pc' = "done"
    /\ UNCHANGED <<mode, repo, package, max_depth, filter, graph, visited, levels,
                   depth, expanded, edges, stdout, error, git>>
    /\ UNCHANGED <<parseVars, buildVars, nameVars, fixtureVars>>

Next ==
    \/ LoadGraph
    \/ BfsStart
    \/ Recurse
    \/ CollectEdges
    \/ PrintOutput
    \/ Finally

Spec == Init /\ [][Next]_vars

\* bfs_recursive_levels alone (lines 156-182), called with a graph that has
\* the start node as a key, as main leaves it at line 227
InitBfs ==
    /\ mode = "test" /\ repo = Path(FALSE, "file", <<>>, 0) /\ git = "ok"
    /\ package \in Names
    /\ max_depth \in 0..MaxDepth
    /\ filter \in Filters
    /\ graph \in {g \in FixtureGraphs \cup ExampleGraphs : package \in DOMAIN g}
    /\ pc = "bfs"
    /\ visited = {} /\ levels = <<>> /\ depth = 0
    /\ expanded = {} /\ edges = <<>> /\ stdout = <<>> /\ stderr = <<>>
    /\ exit_code = -1 /\ error = NoError /\ workdir = "none"
    /\ ParseIdle /\ BuildIdle /\ NameIdle /\ FixtureIdle

NextBfs == BfsStart \/ Recurse

\* the interpreter runs one thread: a call that can be made is made
SpecBfs == InitBfs /\ [][NextBfs]_vars /\ WF_vars(NextBfs)

----------------------------------------------------------------------------
(* parse_toml_dependencies, one loop iteration per step *)

QuotedB == <<"\"">> \o NameB \o <<"\"">>

\* the text  a = "1", b = "2"  between the braces of an inline table
InlineBody == <<" ">> \o LineKey(NameA, "1") \o <<",", " ">> \o LineKey(NameB, "2") \o <<" ">>

\* dependencies = { a = "1", b = "2" }
InlineTable == LineInline(InlineBody)

\* the inline table broken into two lines after its character number p
SplitAt(text, p) == <<SubSeq(text, 1, p), Drop(text, p + 1)>>

\* every break inside the braces: after the "{" up to just before the "}"
InlineSplits ==
    {SplitAt(InlineTable, p) : p \in Find(InlineTable, "{")..(Find(InlineTable, "}") - 1)}

\* an inline table on one line, and one left open at the end of its line
InlineAB   == LineInline(<<" ">> \o LineKey(NameAB, "1") \o <<" ">>)
InlineOpen == kwDependencies \o <<" ", "=", " ", "{", " ">> \o LineKey(NameAB, "1") \o <<",">>

LineSectionCased == <<"[", "D">> \o Drop(kwDependencies, 2) \o <<"]", " ">>
LineDev          == <<"[", "d", "e", "v", "-">> \o kwDependencies \o <<"]">>
LineKeyComment   == LineKey(NameAB, "2") \o <<" ", "#", " ">> \o LineKey(NameB, "3")
LineCommentOnly  == <<"#", " ">> \o LineKey(NameB, "1")
LineClose        == <<" ">> \o LineKey(NameB, "2") \o <<" ", "}">>

LineVocabulary ==
    { LineSection,                                                \* [dependencies]
      LineSectionCased,                                           \* [Dependencies]
      LineTable(NameA),                                           \* [dependencies.a]
      LineTable(QuotedB),                                         \* [dependencies."b"]
      LinePackage,                                                \* [package]
      LineDev,                                                    \* [dev-dependencies]
      LineKey(NameA, "1"),                                        \* a = "1"
      LineKeyComment,                                             \* ab = "2" # b = "3"
      LineCommentOnly,                                            \* # b = "1"
      InlineAB,                                                   \* dependencies = { ab = "1" }
      InlineOpen,                                                 \* dependencies = { ab = "1",
      LineClose }                                                 \*  b = "2" }

ManifestInputs == UNION {[1..n -> LineVocabulary] : n \in 0..MaxLines}

InitParse ==
    /\ lines \in ManifestInputs \cup InlineSplits
    /\ idx = 1 /\ deps = {} /\ in_dependencies = FALSE
    /\ last = "none" /\ ppc = "loop" /\ result = <<>>
    /\ MainIdle /\ BuildIdle /\ NameIdle /\ FixtureIdle

\* lines 85-114: one iteration of the loop
ParseLine ==
    /\ ppc = "loop" /\ idx <= Len(lines)
    /\ LET st == DepStep(deps, in_dependencies, lines, idx)
       IN  /\ deps' = st.deps
           /\ in_dependencies' = st.in_dependencies
           /\ last' = st.branch
    /\ idx' = idx + 1
    /\ UNCHANGED <<lines, ppc, result, mainVars, buildVars, nameVars, fixtureVars>>

\* line 115
ParseReturn ==
    /\ ppc = "loop" /\ idx > Len(lines)
    /\ result' = sorted_deps(deps)
    /\ ppc' = "returned"
    /\ UNCHANGED <<lines, idx, deps, in_dependencies, last, mainVars, buildVars, nameVars, fixtureVars>>

NextParse == ParseLine \/ ParseReturn

SpecParse == InitParse /\ [][NextParse]_vars

----------------------------------------------------------------------------
(* build_graph_from_repo on the manifests of a tree *)

\* manifests that declare dependencies in each of the three forms, name a
\* package or not, and reference packages without a manifest
BuildPool ==
    { Manifest(NameA, <<NameB>>),
      Manifest(NameA, <<NameAB, NameA>>),
      Manifest(NameB, <<>>),
      <<LinePackage, LineName(NameB), LineTable(NameA)>>,
      <<LinePackage, LineName(NameAB), LineInline(<<" ">> \o LineKey(NameA, "1") \o <<" ">>)>>,
      <<LinePackage, LineSection, LineKey(NameB, "1")>>,
      <<LineName(NameA), LineSection, LineKey(NameAB, "1")>>,
      Nameless(<<NameA>>) }

InitBuild ==
    /\ tomls \in UNION {[1..n -> BuildPool] : n \in 0..MaxTomls}
    /\ all_nodes = EmptyGraph /\ bpc = "build"
    /\ MainIdle /\ ParseIdle /\ NameIdle /\ FixtureIdle

\* lines 137-153
BuildGraph ==
    /\ bpc = "build"
    /\ all_nodes' = build_graph_from_repo(tomls)
    /\ bpc' = "returned"
    /\ UNCHANGED <<tomls, mainVars, parseVars, nameVars, fixtureVars>>

NextBuild == BuildGraph

SpecBuild == InitBuild /\ [][NextBuild]_vars

----------------------------------------------------------------------------
(* parse_toml_package_name on the lines of a manifest *)

LineMetadata == <<"[">> \o kwPackage \o <<".", "m", "]">>          \* [package.m]
LinePackageCased == <<" ", "[", "P">> \o Drop(kwPackage, 1) \o <<"]", " ">>
LineNameSingle == kwName \o <<"=", "'">> \o NameB \o <<"'">>        \* name='b'
LineNameComment ==                                                  \*  name = "ab" # x
    <<" ">> \o LineName(NameAB) \o <<" ", "#", " ", "x">>

\* package headers, other headers, quoted name assignments and other keys
NameVocabulary ==
    { LinePackage, LinePackageCased, LineMetadata, LineSection,
      LineName(NameA), LineNameSingle, LineNameComment, LineKey(NameA, "1") }

InitName ==
    /\ plines \in UNION {[1..n -> NameVocabulary] : n \in 0..MaxLines}
    /\ pkg_name = NoMatch /\ npc = "parse"
    /\ MainIdle /\ ParseIdle /\ BuildIdle /\ FixtureIdle

\* lines 62-76
ParseName ==
    /\ npc = "parse"
    /\ pkg_name' = parse_toml_package_name(plines)
    /\ npc' = "returned"
    /\ UNCHANGED <<plines, mainVars, parseVars, buildVars, fixtureVars>>

NextName == ParseName

SpecName == InitName /\ [][NextName]_vars

----------------------------------------------------------------------------
(* parse_test_graph_file on the lines of a fixture file *)

RawAB      == NameA \o <<":", " ">> \o NameB \o <<" ">> \o NameAB       \* a: b ab
RawTwice   == NameA \o <<":", " ">> \o NameB \o <<" ">> \o NameB        \* a: b b
RawLeaf    == NameB \o <<":">>                                          \* b:
RawPadded  ==                                                           \*  ab : a # b: a
    <<" ">> \o NameAB \o <<" ", ":", " ">> \o NameA \o <<" ", "#", " ">> \o NameB
        \o <<":", " ">> \o NameA
RawTight   == NameB \o <<":">> \o NameA \o <<" ", " ">> \o NameAB       \* b:a  ab
RawNoNode  == <<":", " ">> \o NameB                                     \* : b
RawComment == <<"#", " ">> \o NameA \o <<":", " ">> \o NameB            \* # a: b
RawBlank   == <<" ", " ">>
RawBad     == NameA \o <<" ">> \o NameB                                 \* a b
RawBadComment == NameA \o <<" ", "#", " ", ":", " ">> \o NameB          \* a # : b

\* declarations, re-declarations, lines without a node name, comment and
\* blank lines, and lines without a ':' outside the comment
RawVocabulary ==
    { RawAB, RawTwice, RawLeaf, RawPadded, RawTight, RawNoNode,
      RawComment, RawBlank, <<>>, RawBad, RawBadComment }

InitFixture ==
    /\ ffile \in UNION {[1..n -> RawVocabulary] : n \in 0..MaxRaws}
    /\ loaded = [ok |-> TRUE, graph |-> EmptyGraph, raw |-> <<>>]
    /\ fpc = "parse"
    /\ MainIdle /\ ParseIdle /\ BuildIdle /\ NameIdle

\* lines 121-134
LoadFixture ==
    /\ fpc = "parse"
    /\ loaded' = parse_test_graph_file(ffile)
    /\ fpc' = "returned"
    /\ UNCHANGED <<ffile, mainVars, parseVars, buildVars, nameVars>>

NextFixture == LoadFixture

SpecFixture == InitFixture /\ [][NextFixture]_vars

----------------------------------------------------------------------------
(* Properties of the traversal and of main *)

\* bfs_recursive_levels has returned
Traversed == pc \in {"collect", "print", "finally", "done"} /\ error = NoError

\* collect_edges_within_levels has returned
Collected == pc \in {"print", "finally", "done"} /\ error = NoError

\* the filter excludes the start node itself
ShortCircuit == filter # <<>> /\ Contains(filter, package)

\* the nodes at the end of a path of at most k edges from s in g, none of
\* whose nodes contains the non-empty filter f
RECURSIVE Within(_, _, _, _)
Within(g, s, f, k) ==
    IF f # <<>> /\ Contains(f, s) THEN {}
    ELSE IF k = 0 THEN {s}
    ELSE LET R == Within(g, s, f, k - 1)
         IN  R \cup {n \in UNION {Range(Get(g, m)) : m \in R} :
                        ~(f # <<>> /\ Contains(f, n))}

\* the nodes at shortest-path distance exactly k
AtDistance(g, s, f, k) ==
    IF k = 0 THEN Within(g, s, f, 0) ELSE Within(g, s, f, k) \ Within(g, s, f, k - 1)

\* level k of the result (counted from 0) as a set, empty if there is none
LevelSet(k) == IF k + 1 <= Len(levels) THEN Range(levels[k + 1]) ELSE {}

\* number of occurrences of x in the list s
Occurrences(s, x) == Cardinality({k \in 1..Len(s) : s[k] = x})

\* C1: with max_depth = 0 and a filter that does not short-circuit, the
\* traversal returns levels = [[s]] and visited = {s} without reading the
\* neighbours of any node, and the collected edges are only pairs (s, s),
\* present only if s lists itself as a dependency.
C1_DepthZero ==
    (max_depth = 0 /\ ~ShortCircuit) =>
        /\ Traversed => /\ levels = <<<<package>>>>
                        /\ visited = {package}
                        /\ expanded = {}
        /\ Collected => /\ \A k \in 1..Len(edges) : edges[k] = <<package, package>>
                        /\ edges # <<>> => package \in Range(Get(graph, package))

\* a depth-0 run of a start node that declares itself and another,
\* unfiltered dependency
C1_Witness ==
    /\ pc = "done" /\ error = NoError /\ max_depth = 0 /\ ~ShortCircuit
    /\ edges # <<>>
    /\ \E n \in Range(Get(graph, package)) : n # package /\ ~Filtered(filter, n)

\* C2: when the non-empty filter is a substring of the start node, visited
\* and levels are empty, no edge is collected and nothing is written to
\* standard output, whatever max_depth and the graph are.
C2_ShortCircuit ==
    ShortCircuit =>
        /\ Traversed => visited = {} /\ levels = <<>>
        /\ Collected => edges = <<>>
        /\ stdout = <<>>

\* a finished short-circuited run whose start node differs from the filter
\* and has dependencies within reach
C2_Witness ==
    /\ pc = "done" /\ error = NoError /\ ShortCircuit /\ filter # package
    /\ max_depth > 0 /\ Get(graph, package) # <<>>

\* C3: with a non-empty filter, no node that contains the filter is ever in
\* visited or in a level, and every visited node ends a path of at most
\* max_depth edges from start none of whose nodes contains the filter.
C3_FilteredUnreachable ==
    filter # <<>> =>
        \A n \in visited \cup NodesSet(levels) :
            /\ ~Contains(filter, n)
            /\ n \in Within(graph, package, filter, max_depth)

\* a finished run that left out a node which is within max_depth edges of
\* start, does not contain the filter, and is cut off by filtered nodes
C3_Witness ==
    /\ pc = "done" /\ error = NoError /\ filter # <<>> /\ visited # {}
    /\ \E n \in Within(graph, package, <<>>, max_depth) :
           ~Contains(filter, n) /\ n \notin visited

\* C4: in a traversal that is not short-circuited, for every k in
\* 0..max_depth level k holds exactly the nodes at shortest-path distance k
\* from start in the graph restricted by the filter, and no level holds a
\* node farther than max_depth.
C4_LevelsAreDistances ==
    (Traversed /\ ~ShortCircuit) =>
        /\ \A k \in 0..max_depth :
               LevelSet(k) = AtDistance(graph, package, filter, k)
        /\ Len(levels) <= max_depth + 1

\* a finished run with a node one edge beyond max_depth, which is left out,
\* and a cycle from level 1 back to the start node
C4_Witness ==
    /\ pc = "done" /\ error = NoError /\ max_depth >= 1
    /\ AtDistance(graph, package, filter, max_depth + 1) # {}
    /\ \E n \in LevelSet(1) : package \in Range(Get(graph, n))

\* the pairs the edge collector must return, each with its multiplicity
ExpectedCount(a, b) ==
    IF a \in NodesSet(levels) /\ b \in NodesSet(levels)
    THEN Occurrences(Get(graph, a), b) ELSE 0

\* s repeated n times
Repeat(x, n) == [k \in 1..n |-> x]

RECURSIVE Flatten(_)
Flatten(ss) == IF ss = <<>> THEN <<>> ELSE Head(ss) \o Flatten(Tail(ss))

\* the expected pairs, sources ascending and targets ascending within a source
ExpectedSorted ==
    LET ns == SortedStrs(NodesSet(levels))
    IN  Flatten([a \in 1..Len(ns) |->
            Flatten([b \in 1..Len(ns) |->
                Repeat(<<ns[a], ns[b]>>, ExpectedCount(ns[a], ns[b]))])])

\* C5: the edge collector returns exactly the pairs (a, b) with a and b in
\* the union of the levels and b occurring in graph[a], once per occurrence,
\* and the run prints them sorted by (source, target), before the levels.
C5_Edges ==
    /\ Collected =>
           /\ \A k \in 1..Len(edges) : edges[k] \in Names \X Names
           /\ \A a \in Names, b \in Names :
                  Occurrences(edges, <<a, b>>) = ExpectedCount(a, b)
    /\ (pc \in {"finally", "done"} /\ error = NoError) =>
           /\ Len(stdout) = Len(ExpectedSorted) + Len(levels)
           /\ \A k \in 1..Len(ExpectedSorted) :
                  stdout[k] = ExpectedSorted[k][1] \o <<" ", "-", ">", " ">>
                              \o ExpectedSorted[k][2]

\* a finished run with a dependency listed twice, an edge between two nodes
\* of the last level, and an edge list collected out of order
C5_Witness ==
    /\ pc = "done" /\ error = NoError /\ Len(levels) >= 2
    /\ \E k \in 1..Len(edges), l \in 1..Len(edges) : k < l /\ edges[k] = edges[l]
    /\ \E k \in 1..Len(edges) :
           /\ edges[k][1] \in Range(levels[Len(levels)])
           /\ edges[k][2] \in Range(levels[Len(levels)])
    /\ \E k \in 1..(Len(edges) - 1) : PairLess(edges[k + 1], edges[k])

\* the nodes a fixture file declares: the text to the left of each ':'
FixtureKeys(f) == {SplitHead(f[k], ":") : k \in 1..Len(f)}

\* the names the named manifests of a tree declare or depend on
TreeKeys(t) ==
    {n \in Names : \E k \in 1..Len(t) :
        /\ t[k][1] = LinePackage
        /\ \/ t[k][2] = LineName(n)
           \/ \E j \in 4..Len(t[k]) : t[k][j] = LineKey(n, "1")}

\* the source yields a graph and the start node is not a key of it
StartMissing ==
    /\ repo.exists /\ git = "ok" /\ repo.unreadable = 0
    /\ IF mode = "test" THEN package \notin FixtureKeys(repo.content)
                        ELSE package \notin TreeKeys(repo.content)

\* C6: in test mode a start node that is not a key of the fixture graph ends
\* the run with an error message and a non-zero exit status, without any
\* traversal or output; in clone and local mode such a start node is
\* inserted with an empty dependency list and the traversal yields the
\* single level [start] unless the filter matches it.
C6_MissingStart ==
    (StartMissing /\ pc # "load") =>
        IF mode = "test"
        THEN /\ pc \in {"finally", "done"}
             /\ error # NoError
             /\ visited = {} /\ levels = <<>> /\ expanded = {} /\ stdout = <<>>
             /\ package \notin DOMAIN graph
             /\ pc = "done" => exit_code # 0 /\ Len(stderr) = 1
        ELSE /\ error = NoError
             /\ package \in DOMAIN graph /\ graph[package] = <<>>
             /\ (Traversed /\ ~ShortCircuit) => levels = <<<<package>>>>
             /\ pc = "done" =>
                    /\ exit_code = 0 /\ stderr = <<>>
                    /\ ~ShortCircuit =>
                           stdout = << <<"L","e","v","e","l"," ","0",":"," ">> \o package >>

\* a finished local run whose start node no manifest declares or references
C6_Witness ==
    /\ pc = "done" /\ mode = "local" /\ StartMissing /\ ~ShortCircuit
    /\ DOMAIN graph # {package} /\ max_depth > 0

----------------------------------------------------------------------------
(* Properties of build_graph_from_repo *)

\* the package names the manifests of the tree declare
DeclaredNames ==
    {parse_toml_package_name(tomls[k])[1] :
        k \in {j \in 1..Len(tomls) : parse_toml_package_name(tomls[j]) # NoMatch}}

\* the names that occur in a dependency list of the returned graph
Referenced == UNION {Range(all_nodes[n]) : n \in DOMAIN all_nodes}

\* C7: in the graph build_graph_from_repo returns, every name in a
\* dependency list is a key, and a referenced name that no manifest declares
\* as its package maps to the empty dependency list.
C7_ReferencedAreKeys ==
    bpc = "returned" =>
        /\ Referenced \subseteq DOMAIN all_nodes
        /\ \A d \in Referenced \ DeclaredNames : all_nodes[d] = <<>>

\* a returned graph with a referenced name that has no manifest of its own
C7_Witness ==
    /\ bpc = "returned"
    /\ Referenced \ DeclaredNames # {}
    /\ Referenced \cap DeclaredNames # {}

----------------------------------------------------------------------------
(* Properties of parse_toml_dependencies *)

\* C8: for the inline table  dependencies = { a = "1", b = "2" }  broken
\* into two lines at any position inside the braces, the parser returns
\* exactly the names a and b.
C8_InlineSplit ==
    (ppc = "returned" /\ lines \in InlineSplits) => result = <<NameA, NameB>>

\* C9: the returned list is in strictly ascending order, hence without a
\* repeated name, and holds exactly the collected names; a name declared by
\* several forms occurs once.
C9_SortedUnique ==
    ppc = "returned" =>
        /\ \A k \in 1..(Len(result) - 1) : StrLess(result[k], result[k + 1])
        /\ Range(result) = deps

\* a manifest that declares ab by an inline table and by the block form
C9_Witness ==
    /\ ppc = "returned" /\ Len(result) >= 2
    /\ \E h \in 1..Len(lines), k \in 1..Len(lines) :
           /\ lines[h] = InlineAB
           /\ h + 1 < k /\ lines[h + 1] = LineSection
           /\ key_val_re(lines[k]) = <<NameAB>>
    /\ Occurrences(result, NameAB) = 1

\* the dotted-table headers of the inputs and the name each one declares
IsDotted(line) == line \in {LineTable(NameA), LineTable(QuotedB)}
DottedName(line) == IF line = LineTable(NameA) THEN NameA ELSE NameB

\* a bracket header line
IsHeader(line) == startswith(strip(line), <<"[">>)

\* a line of the form  key = value  once its comment is removed
IsKeyValue(line) ==
    LET s  == strip(SplitHead(line, "#"))
        p  == RunEnd(s, 1, IdentChars)
    IN  p > 1 /\ CharAt(s, RunEnd(s, p, SpaceChars), "=")

\* line k lies in the body of a dotted table: after its header and before
\* the next header
InDottedBody(k) ==
    /\ ~IsHeader(lines[k])
    /\ \E h \in 1..(k - 1) :
           IsDotted(lines[h]) /\ \A j \in (h + 1)..(k - 1) : ~IsHeader(lines[j])

\* C10 as stated: a dotted header adds exactly its name and
\* closes the block form, and no key = value line of its body adds a name
C10_Original ==
    [][(ppc = "loop" /\ idx <= Len(lines)) =>
          /\ IsDotted(lines[idx]) =>
                 deps' = deps \cup {DottedName(lines[idx])} /\ ~in_dependencies'
          /\ (InDottedBody(idx) /\ IsKeyValue(lines[idx])) => deps' = deps]_vars

\* C10: a header [dependencies.<name>] adds exactly <name>, quotes stripped,
\* and leaves the block form closed; a key = value line in the body of that
\* table adds no name when it is processed, unless the line itself opens an
\* inline table  dependencies = {
C10_DottedTable ==
    [][(ppc = "loop" /\ idx <= Len(lines)) =>
          /\ IsDotted(lines[idx]) =>
                 deps' = deps \cup {DottedName(lines[idx])} /\ ~in_dependencies'
          /\ (InDottedBody(idx) /\ IsKeyValue(lines[idx])
                /\ ~inline_deps_re(lines[idx])) => deps' = deps]_vars

\* a block form closed by a quoted dotted header whose body has a
\* key = value line: only the header's name is returned
C10_Witness ==
    /\ ppc = "returned" /\ Len(lines) = 3
    /\ lines[1] = LineSection
    /\ lines[2] = LineTable(QuotedB)
    /\ lines[3] = LineKey(NameA, "1")
    /\ result = <<NameB>>

\* the [package] header, whatever its case and the blanks around it
IsPackageHeader(line) == lower(strip(line)) = <<"[">> \o kwPackage \o <<"]">>

\* the value a name assignment of the inputs assigns, NoMatch for other lines
AssignedName(line) ==
    IF line = LineName(NameA) THEN <<NameA>>
    ELSE IF line = LineNameSingle THEN <<NameB>>
    ELSE IF line = LineNameComment THEN <<NameAB>>
    ELSE NoMatch

\* the first line after h that satisfies P, Len(plines) + 1 if none does
FirstAfter(h, P(_)) ==
    LET S == {k \in (h + 1)..Len(plines) : P(plines[k])}
    IN  IF S = {} THEN Len(plines) + 1 ELSE CHOOSE k \in S : \A j \in S : k <= j

IsAssignment(line) == AssignedName(line) # NoMatch
IsOtherHeader(line) == IsHeader(line) /\ ~IsPackageHeader(line)

\* C11: after the first [package] header, the value of the first name
\* assignment is returned, and nothing is returned when a bracket header
\* other than [package] stands between that header and the assignment
C11_PackageName ==
    (npc = "returned" /\ \E k \in 1..Len(plines) : IsPackageHeader(plines[k])) =>
        LET h == FirstAfter(0, IsPackageHeader)
            n == FirstAfter(h, IsAssignment)
            o == FirstAfter(h, IsOtherHeader)
        IN  /\ (n <= Len(plines) /\ n < o) => pkg_name = AssignedName(plines[n])
            /\ o < n => pkg_name = NoMatch

----------------------------------------------------------------------------
(* Properties of main's sources and of its cleanup *)

\* C12: in local mode, a path that exists and under which no Cargo.toml is
\* found (an empty tree, or a file that is not named Cargo.toml) ends the run
\* with one error message, a non-zero exit status and nothing on stdout
C12_NoManifest ==
    (/\ mode = "local" /\ pc = "done" /\ repo.exists
     /\ (repo.kind = "other_file" \/ repo.content = <<>>))
        => /\ exit_code # 0
           /\ Len(stderr) = 1
           /\ stdout = <<>>

\* the removal of the temporary directory has been attempted
RemovalAttempted == workdir \in {"removed", "remove_failed"}

\* C13: in clone mode the process never exits before the removal of the
\* temporary directory has been attempted, whichever way the run ends, and
\* the exit status and the error message are those of the run itself,
\* whether the removal succeeded or failed
C13_Cleanup ==
    (mode = "clone" /\ exit_code # -1) =>
        /\ RemovalAttempted
        /\ exit_code = (IF error = NoError THEN 0 ELSE 1)
        /\ stderr = error
        /\ (git = "missing" => error = RuntimeError("git is not available on PATH.", <<>>))
        /\ (git = "clone_failed" => error = RuntimeError("git clone failed", <<>>))
        /\ ((git = "ok" /\ repo.unreadable # 0) =>
                error = RuntimeError("Failed to read file", repo.unreadable))
        /\ ((git = "ok" /\ repo.unreadable = 0) => error = NoError)

\* a clone whose second manifest cannot be read and whose temporary
\* directory cannot be removed
C13_Witness ==
    /\ mode = "clone" /\ pc = "done" /\ git = "ok"
    /\ repo.unreadable = 2
    /\ workdir = "remove_failed"
    /\ exit_code = 1 /\ Len(stderr) = 1 /\ stdout = <<>>

----------------------------------------------------------------------------
(* Properties of parse_test_graph_file *)

\* the text of a raw line in front of its first '#'
BeforeComment(raw) ==
    LET H == {i \in 1..Len(raw) : raw[i] = "#"}
    IN  IF H = {} THEN raw
        ELSE SubSeq(raw, 1, (CHOOSE i \in H : \A j \in H : i <= j) - 1)

\* nothing but blanks is left of the comment
IsBlank(raw) == \A c \in Range(BeforeComment(raw)) : IsSpace(c)

\* a line with text but without a ':' outside its comment
IsBad(raw) == ~IsBlank(raw) /\ ":" \notin Range(BeforeComment(raw))

\* C14: a file with a line that has text and no ':' once its comment is
\* removed is rejected with an error that carries that raw line, and no graph
\* is returned; a file without such a line is never rejected, whatever its
\* blank lines and comment lines (a ':' inside a comment included)
C14_BadLine ==
    fpc = "returned" =>
        LET B == {k \in 1..Len(ffile) : IsBad(ffile[k])}
        IN  IF B = {} THEN loaded.ok
            ELSE /\ ~loaded.ok
                 /\ loaded.graph = EmptyGraph
                 /\ loaded.raw = ffile[CHOOSE k \in B : \A j \in B : k <= j]

\* a comment line with a ':' and a declaration are accepted, then a line
\* whose only ':' is inside its comment is rejected
C14_Witness ==
    /\ fpc = "returned"
    /\ ffile = <<RawComment, RawAB, RawBadComment>>
    /\ ~loaded.ok /\ loaded.raw = RawBadComment

\* what each line of the inputs declares: <<node, dependency list>>, or <<>>
DeclaredBy(raw) ==
    IF raw = RawAB THEN <<NameA, <<NameB, NameAB>>>>
    ELSE IF raw = RawTwice THEN <<NameA, <<NameB, NameB>>>>
    ELSE IF raw = RawLeaf THEN <<NameB, <<>>>>
    ELSE IF raw = RawPadded THEN <<NameAB, <<NameA>>>>
    ELSE IF raw = RawTight THEN <<NameB, <<NameA, NameAB>>>>
    ELSE <<>>

\* C15: the keys of the graph of a well-formed fixture are exactly the node
\* names declared left of a ':', and each key maps to the tokens of its last
\* declaration, in the order written and with repetitions kept
C15_LastDeclaration ==
    (fpc = "returned" /\ \A k \in 1..Len(ffile) : ~IsBad(ffile[k])) =>
        LET D == {k \in 1..Len(ffile) : DeclaredBy(ffile[k]) # <<>>}
            LastOf(n) == CHOOSE k \in D :
                             /\ DeclaredBy(ffile[k])[1] = n
                             /\ \A j \in D : DeclaredBy(ffile[j])[1] = n => j <= k
        IN  /\ loaded.ok
            /\ DOMAIN loaded.graph = {DeclaredBy(ffile[k])[1] : k \in D}
            /\ \A n \in DOMAIN loaded.graph :
                   loaded.graph[n] = DeclaredBy(ffile[LastOf(n)])[2]

\* a is declared twice, the second time with a repeated dependency; ab is
\* only a dependency
C15_Witness ==
    /\ fpc = "returned"
    /\ ffile = <<RawAB, RawTight, RawTwice>>
    /\ DOMAIN loaded.graph = {NameA, NameB}
    /\ loaded.graph[NameA] = <<NameB, NameB>>

----------------------------------------------------------------------------
(* Properties of bfs_recursive_levels, call by call *)

\* no element occurs twice in the list s
NoRepeats(s) == \A i, j \in 1..Len(s) : s[i] = s[j] => i = j

\* C16: between the calls of recurse, visited is the union of the levels
\* emitted so far and no node occurs twice in the levels, within one level
\* or across levels; every step keeps the members of visited and keeps the
\* levels emitted so far unchanged as a prefix of the new level sequence
C16_Invariants ==
    /\ [](visited = NodesSet(levels) /\ NoRepeats(Flatten(levels)))
    /\ [][/\ visited \subseteq visited'
          /\ Len(levels) <= Len(levels')
          /\ SubSeq(levels', 1, Len(levels)) = levels]_vars

\* a finished traversal of a graph in which the start node lists one
\* dependency twice and that dependency lists the start node
C16_Witness ==
    /\ pc = "done" /\ error = NoError /\ Len(levels) >= 2
    /\ \E n \in Range(levels[2]) :
           /\ Occurrences(Get(graph, package), n) >= 2
           /\ package \in Range(Get(graph, n))

\* the neighbours of the last level that are neither filtered nor visited
NextFrontierSet ==
    {n \in UNION {Range(Get(graph, m)) : m \in Range(levels[Len(levels)])} :
        ~(filter # <<>> /\ Contains(filter, n)) /\ n \notin visited}

\* C17: every traversal returns; there are never more than max_depth + 1
\* levels and never an empty level; a call of recurse is followed by another
\* call exactly if max_depth is not reached and the next frontier is not empty
C17_Terminates ==
    /\ <>(pc = "collect")
    /\ [](Len(levels) <= max_depth + 1 /\ \A k \in 1..Len(levels) : levels[k] # <<>>)
    /\ [][pc = "recurse" =>
             (pc' = "recurse" <=> (depth < max_depth /\ NextFrontierSet # {}))]_vars

\* a traversal of a graph with a cycle through the start node that ends
\* before max_depth because the next frontier is empty
C17_Witness ==
    /\ pc = "collect"
    /\ Len(levels) >= 2 /\ Len(levels) < max_depth + 1
    /\ \E n \in Range(levels[2]) : package \in Range(Get(graph, n))

\* the elements of c at the positions keep, from position k on, in order
RECURSIVE Pick(_, _, _)
Pick(c, keep, k) ==
    IF k > Len(c) THEN <<>>
    ELSE (IF k \in keep THEN <<c[k]>> ELSE <<>>) \o Pick(c, keep, k + 1)

\* the next frontier of the iterative loop: the dependency lists of the
\* nodes of level, concatenated in order, reduced to the first occurrence of
\* each name that is neither filtered nor in seen
NextLevel(level, seen, g, f) ==
    LET c == Flatten([i \in 1..Len(level) |-> Get(g, level[i])])
    IN  Pick(c, {i \in 1..Len(c) : /\ ~(f # <<>> /\ Contains(f, c[i]))
                                    /\ c[i] \notin seen
                                    /\ \A j \in 1..(i - 1) : c[j] # c[i]}, 1)

\* the iterative loop: a depth counter d, the current frontier (the last
\* level) and the next frontier
RECURSIVE FrontierLoop(_, _, _, _, _, _)
FrontierLoop(lvls, seen, d, g, md, f) ==
    IF d >= md THEN [levels |-> lvls, visited |-> seen]
    ELSE LET next == NextLevel(lvls[Len(lvls)], seen, g, f)
         IN  IF next = <<>> THEN [levels |-> lvls, visited |-> seen]
             ELSE FrontierLoop(Append(lvls, next), seen \cup Range(next), d + 1, g, md, f)

Iterative(g, s, md, f) ==
    IF f # <<>> /\ Contains(f, s) THEN [levels |-> <<>>, visited |-> {}]
    ELSE FrontierLoop(<<<<s>>>>, {s}, 0, g, md, f)

\* C18: the recursion returns the level sequence, with the order of the
\* nodes in each level, and the visited set of the iterative frontier loop
C18_Refines ==
    Traversed =>
        /\ levels = Iterative(graph, package, max_depth, filter).levels
        /\ visited = Iterative(graph, package, max_depth, filter).visited

\* a level whose nodes are not in alphabetical order, the first of them
\* listed twice by the start node
C18_Witness ==
    /\ pc = "done" /\ error = NoError /\ Len(levels) >= 2
    /\ levels[2] = <<NameB, NameAB>>
    /\ Occurrences(Get(graph, package), NameB) = 2

\* C20: in test mode with a declared start node the run ends without an
\* error, and a name that is only referenced, never declared, and lies within
\* max_depth of the start node in the filtered graph is visited, stands in
\* exactly one level, is the source of no edge, and is the target of one
\* edge for every occurrence in the list of a visited node
C20_Undeclared ==
    (/\ mode = "test" /\ pc = "done" /\ repo.exists
     /\ package \in FixtureKeys(repo.content))
        => /\ exit_code = 0 /\ stderr = <<>>
           /\ \A n \in Within(graph, package, filter, max_depth)
                         \ FixtureKeys(repo.content) :
                  /\ n \in visited
                  /\ Occurrences(Flatten(levels), n) = 1
                  /\ \A k \in 1..Len(edges) : edges[k][1] # n
                  /\ \A v \in visited :
                         Occurrences(edges, <<v, n>>) = Occurrences(Get(graph, v), n)
                  /\ \E v \in visited : Occurrences(edges, <<v, n>>) >= 1

\* the start node lists an undeclared name, which is placed in level 1
C20_Witness ==
    /\ mode = "test" /\ pc = "done" /\ exit_code = 0
    /\ \E n \in Names \ FixtureKeys(repo.content) :
           /\ Len(levels) >= 2 /\ n \in Range(levels[2])
           /\ <<package, n>> \in Range(edges)

----------------------------------------------------------------------------
(* Properties of the block form of parse_toml_dependencies *)

\* the [dependencies] header, whatever its case and the blanks around it
IsSectionHeader(line) == lower(strip(line)) = LineSection

\* line k lies in a [dependencies] block: the last bracket header in front
\* of it is a [dependencies] header
InBlock(k) ==
    \E h \in 1..(k - 1) :
        /\ h <= Len(lines) /\ IsSectionHeader(lines[h])
        /\ \A j \in (h + 1)..(k - 1) : ~IsHeader(lines[j])

\* the identifier in front of '=' in each line of the inputs, <<>> for a
\* line that is blank once its comment is removed
BlockKey(line) ==
    IF line = LineKey(NameA, "1") THEN NameA
    ELSE IF line = LineKeyComment THEN NameAB
    ELSE IF line = LineClose THEN NameB
    ELSE IF line \in {InlineAB, InlineOpen} THEN kwDependencies
    ELSE <<>>

\* C19: the block form is open exactly in [dependencies] blocks; a line of
\* a block that is not a header adds the identifier in front of its '=' if
\* it has text outside its comment and adds nothing otherwise; a line
\* outside every block adds no name through the block form, and a
\* key = value line there adds no name at all unless it opens an inline table
C19_BlockForm ==
    /\ [](ppc = "loop" => in_dependencies = InBlock(idx))
    /\ [][(ppc = "loop" /\ idx <= Len(lines)) =>
            /\ (InBlock(idx) /\ ~IsHeader(lines[idx])) =>
                   IF BlockKey(lines[idx]) # <<>>
                   THEN last' = "key" /\ deps' = deps \cup {BlockKey(lines[idx])}
                   ELSE last' = "blank" /\ deps' = deps
            /\ (~InBlock(idx) \/ IsHeader(lines[idx])) => last' \notin {"key", "blank"}
            /\ (~InBlock(idx) /\ IsKeyValue(lines[idx]) /\ ~inline_deps_re(lines[idx]))
                   => deps' = deps]_vars

\* a key in front of the header adds nothing, a key of the block adds its
\* name, the key inside its comment does not
C19_Witness ==
    /\ ppc = "returned"
    /\ lines = <<LineKey(NameA, "1"), LineSection, LineKeyComment>>
    /\ result = <<NameAB>>

====
